---- MODULE Spec2Model ----
(***************************************************************************)
(* A model of zap-baseline.py: one run of main(), from option parsing to   *)
(* the exit code.  The scanner (ZAP), its container and the files are the  *)
(* environment: what they return is drawn from small sets.                 *)
(*                                                                         *)
(* load_config, zap_get_alerts, is_in_scope, print_rules and the           *)
(* inc_*_rules predicates live in zap_common, which main() only calls;     *)
(* they are modelled from the specification (sections 4.1 - 4.5) and from  *)
(* the way main() uses their results.                                      *)
(***************************************************************************)
EXTENDS Integers, FiniteSets, Sequences, TLC

\* ---------------------------------------------------------------- bounds
\* at most this many raw alerts are returned by the scanner
MaxFindings == 2
\* at most this many disposition records in the config
MaxOverrides == 1
\* at most this many "inprogress" issues in the progress file
MaxProgress == 1
\* largest count fed to the verdict step in SpecVerdict
MaxCount == 2

\* ------------------------------------------------------- input universes
\* Pscan rules that aren't really relevant (global `blacklist`)
blacklist == {"-1", "50003", "60000", "60001"}

\* rule ids of ordinary (not blacklisted) rules
RuleIds == {"10020", "90022"}

\* rule ids the scanner may attach to an alert: the ordinary ones and one
\* of the blacklisted example rules
AlertIds == RuleIds \cup {"50003"}

Urls == {"http://a/1", "http://a/2"}

\* the (rule id, url) pairs of alerts and of OUTOFSCOPE records: every url
\* for an ordinary rule, one url for the blacklisted rule
AlertPairs == (RuleIds \X Urls) \cup {<<"50003", "http://a/1">>}

\* the part of the scanner's catalog that is blacklisted: none of the
\* example rules is installed, or all of them are
BlacklistedParts == {{}, blacklist}

\* the dispositions a config record may declare
OverrideLevels == {"IGNORE", "INFO", "WARN", "FAIL"}

Bounded(S, n) == {T \in SUBSET S : Cardinality(T) <= n}

\* every config_dict a config of at most MaxOverrides records yields
ConfigDicts == UNION {[D -> OverrideLevels] : D \in Bounded(RuleIds, MaxOverrides)}

\* every out_of_scope_dict, as a set of (rule id, excluded url) pairs, of a
\* config whose OUTOFSCOPE records all name the same rule
ScopeDicts == UNION {SUBSET {p \in AlertPairs : p[1] = r} : r \in AlertIds}

\* every set of raw alerts (rule id, url) the scanner may return
FindingSets == Bounded(AlertPairs, MaxFindings)

\* every rule catalog the scanner may return (zap.pscan.scanners)
Catalogs == {N \cup B : N \in SUBSET RuleIds, B \in BlacklistedParts}

\* ----------------------------------------------------------------- state
VARIABLES
    pc,                  \* where main() is
    in_docker,           \* running_in_docker()
    info_unspecified,    \* -i
    min_level,           \* -l, an index of zap_conf_lvls (0 is PASS)
    detailed_output,     \* False under -s
    config_dict,         \* rule id -> disposition
    out_of_scope_dict,   \* set of (rule id, excluded url)
    in_progress_issues,  \* rule ids whose issue has state "inprogress"
    zap_started,         \* start_zap / start_docker_zap returned
    stopped,             \* stop_docker(cid) was called
    all_rules,           \* rule ids of zap.pscan.scanners
    findings,            \* raw alerts of the scanner
    classified,          \* lines 469-518 ran
    alert_dict,          \* rule id -> surviving urls
    pass_dict,           \* rule ids reported as PASS
    results,             \* level -> rule ids print_rules reported at it
    printed,             \* the result lines written: <<level, rule id, urls>>
    pass_count, ignore_count, info_count,
    warn_count, warn_inprog_count, fail_count, fail_inprog_count,
    failure,             \* the failure the run met, "none" if none
    exit_code            \* the process's exit status, -1 while running

vars == <<pc, in_docker, info_unspecified, min_level, detailed_output,
          config_dict, out_of_scope_dict,
          in_progress_issues, zap_started, stopped, all_rules, findings,
          classified, alert_dict, pass_dict, results, printed,
          pass_count, ignore_count, info_count,
          warn_count, warn_inprog_count, fail_count, fail_inprog_count,
          failure, exit_code>>

options  == <<in_docker, info_unspecified, min_level, detailed_output>>
policy   == <<config_dict, out_of_scope_dict, in_progress_issues>>
scanned  == <<all_rules, findings, classified, alert_dict, pass_dict, results,
              printed>>
counts   == <<pass_count, ignore_count, info_count,
              warn_count, warn_inprog_count, fail_count, fail_inprog_count>>

EmptyDict == [k \in {} |-> {}]

NoResults == [l \in OverrideLevels |-> {}]

\* ------------------------------------------------- zap_common, from the spec
\* is_in_scope: false iff the url matches an exclusion registered for the rule
is_in_scope(plugin_id, url, oos) == <<plugin_id, url>> \notin oos

\* the surviving urls of one rule
SurvivingUrls(fs, plugin_id, oos) ==
    {u \in Urls : <<plugin_id, u>> \in fs /\ is_in_scope(plugin_id, u, oos)}

\* zap_get_alerts: one entry per rule id with at least one surviving url;
\* alerts of blacklisted rules are skipped
zap_get_alerts(fs, bl, oos) ==
    LET fired == {r \in {f[1] : f \in fs} \ bl : SurvivingUrls(fs, r, oos) # {}}
    IN  [r \in fired |-> SurvivingUrls(fs, r, oos)]

inc_ignore_rules(cd, key, inc_extra) ==
    key \in DOMAIN cd /\ cd[key] = "IGNORE"

inc_info_rules(cd, key, inc_extra) ==
    (key \in DOMAIN cd /\ cd[key] = "INFO") \/ (key \notin DOMAIN cd /\ inc_extra)

inc_warn_rules(cd, key, inc_extra) ==
    (key \in DOMAIN cd /\ cd[key] = "WARN") \/ (key \notin DOMAIN cd /\ inc_extra)

inc_fail_rules(cd, key, inc_extra) ==
    key \in DOMAIN cd /\ cd[key] = "FAIL"

\* the inc_rule predicate main() passes along with each level
inc_rule(level, cd, key, inc_extra) ==
    CASE level = "IGNORE" -> inc_ignore_rules(cd, key, inc_extra)
      [] level = "INFO"   -> inc_info_rules(cd, key, inc_extra)
      [] level = "WARN"   -> inc_warn_rules(cd, key, inc_extra)
      [] level = "FAIL"   -> inc_fail_rules(cd, key, inc_extra)

\* the rules of alert_dict print_rules reports at one level
rules_at(ad, level, cd, inc_extra) ==
    {key \in DOMAIN ad : inc_rule(level, cd, key, inc_extra)}

\* print_rules: <<count, inprog_count>>; a reported rule with an in-progress
\* issue goes to inprog_count, every other one to count (the *-NEW counter)
print_rules(ad, level, cd, inc_extra, inprog) ==
    LET inc == rules_at(ad, level, cd, inc_extra)
    IN  <<Cardinality(inc \ inprog), Cardinality(inc \cap inprog)>>

\* zap_conf_lvls, in its order: -l stores the index of a level in it
zap_conf_lvls == <<"PASS", "IGNORE", "INFO", "WARN", "FAIL">>

\* zap_conf_lvls.index(level)
LevelIndex(level) ==
    (CHOOSE i \in 1..Len(zap_conf_lvls) : zap_conf_lvls[i] = level) - 1

\* the values -l can store
MinLevels == 0..(Len(zap_conf_lvls) - 1)

\* the lines print_rules writes for one level: none when the level sorts
\* below min_level, otherwise one per reported rule, with its urls unless
\* the output is short
print_rules_lines(ad, level, cd, ml, inc_extra, detailed) ==
    IF ml <= LevelIndex(level)
    THEN {<<level, key, IF detailed THEN ad[key] ELSE {}>> :
              key \in rules_at(ad, level, cd, inc_extra)}
    ELSE {}

\* ------------------------------------------------------------ main(), pure
\* lines 498-502: the PASS lines are written only at the lowest level and in
\* detailed output; pass_count is set after the if, whatever was written
PassPhase_CountPrinted(pd, ml, detailed) ==
    LET lines == IF ml = LevelIndex("PASS") /\ detailed
                 THEN {<<"PASS", r, {}>> : r \in pd} ELSE {}
    IN  [lines |-> lines, count |-> Cardinality(lines)]

PassPhase(pd, ml, detailed) ==
    [lines |-> IF ml = LevelIndex("PASS") /\ detailed
               THEN {<<"PASS", r, {}>> : r \in pd} ELSE {},
     count |-> Cardinality(pd)]

\* lines 504-518: what the four print_rules calls write
ResultLines(ad, cd, info_unspec, ml, detailed) ==
    print_rules_lines(ad, "IGNORE", cd, ml, TRUE, detailed)
        \cup print_rules_lines(ad, "INFO", cd, ml, info_unspec, detailed)
        \cup print_rules_lines(ad, "WARN", cd, ml, ~info_unspec, detailed)
        \cup print_rules_lines(ad, "FAIL", cd, ml, TRUE, detailed)

\* lines 489-496: the catalog rules that are not blacklisted and not alerted
PassDict_NoBlacklist(rules, ad) == {r \in rules : r \notin DOMAIN ad}

PassDict(rules, ad) == {r \in rules \ blacklist : r \notin DOMAIN ad}

\* line 469: the alerts main() classifies
GetAlerts_NoScope(fs, oos) == zap_get_alerts(fs, blacklist, {})

GetAlerts(fs, oos) == zap_get_alerts(fs, blacklist, oos)

\* lines 504-518: the four print_rules calls, with the arguments main() passes
Classification_WarnAlways(ad, cd, info_unspec, inprog) ==
    [ignore |-> print_rules(ad, "IGNORE", cd, TRUE, {}),
     info   |-> print_rules(ad, "INFO", cd, info_unspec, inprog),
     warn   |-> print_rules(ad, "WARN", cd, TRUE, inprog),
     fail   |-> print_rules(ad, "FAIL", cd, TRUE, inprog),
     rules  |-> [l \in OverrideLevels |->
                   CASE l = "IGNORE" -> rules_at(ad, "IGNORE", cd, TRUE)
                     [] l = "INFO"   -> rules_at(ad, "INFO", cd, info_unspec)
                     [] l = "WARN"   -> rules_at(ad, "WARN", cd, TRUE)
                     [] l = "FAIL"   -> rules_at(ad, "FAIL", cd, TRUE)]]

Classification(ad, cd, info_unspec, inprog) ==
    [ignore |-> print_rules(ad, "IGNORE", cd, TRUE, {}),
     info   |-> print_rules(ad, "INFO", cd, info_unspec, inprog),
     warn   |-> print_rules(ad, "WARN", cd, ~info_unspec, inprog),
     fail   |-> print_rules(ad, "FAIL", cd, TRUE, inprog),
     rules  |-> [l \in OverrideLevels |->
                   CASE l = "IGNORE" -> rules_at(ad, "IGNORE", cd, TRUE)
                     [] l = "INFO"   -> rules_at(ad, "INFO", cd, info_unspec)
                     [] l = "WARN"   -> rules_at(ad, "WARN", cd, ~info_unspec)
                     [] l = "FAIL"   -> rules_at(ad, "FAIL", cd, TRUE)]]

\* lines 561-568: the exit code from the counts
ExitCode_WarnFirst(f, w, p) ==
    IF w > 0 THEN 2 ELSE IF f > 0 THEN 1 ELSE IF p > 0 THEN 0 ELSE 3

ExitCode(f, w, p) ==
    IF f > 0 THEN 1 ELSE IF w > 0 THEN 2 ELSE IF p > 0 THEN 0 ELSE 3

\* ------------------------------------------------------------------ Init
\* lines 63-72 and 120-157: empty policy, all counts zero
Init ==
    /\ pc = "options"
    /\ in_docker = FALSE
    /\ info_unspecified = FALSE
    /\ min_level = 0
    /\ detailed_output = TRUE
    /\ config_dict = EmptyDict
    /\ out_of_scope_dict = {}
    /\ in_progress_issues = {}
    /\ zap_started = FALSE
    /\ stopped = FALSE
    /\ all_rules = {}
    /\ findings = {}
    /\ classified = FALSE
    /\ alert_dict = EmptyDict
    /\ pass_dict = {}
    /\ results = NoResults
    /\ printed = {}
    /\ pass_count = 0
    /\ ignore_count = 0
    /\ info_count = 0
    /\ warn_count = 0
    /\ warn_inprog_count = 0
    /\ fail_count = 0
    /\ fail_inprog_count = 0
    /\ failure = "none"
    /\ exit_code = -1

\* sys.exit(code) outside the try block, or an exception nobody catches
\* (the interpreter prints the traceback and exits with status 1)
Abort(kind, code) ==
    /\ pc' = "done"
    /\ failure' = kind
    /\ exit_code' = code

\* -------------------------------------------------- lines 161-253: options
\* getopt rejects the command line
OptionsInvalid ==
    /\ pc = "options"
    /\ Abort("invalid_option", 3)
    /\ UNCHANGED <<options, policy, zap_started, stopped, scanned, counts>>

\* -l names no level of zap_conf_lvls
OptionsBadLevel ==
    /\ pc = "options"
    /\ Abort("bad_level", 3)
    /\ UNCHANGED <<options, policy, zap_started, stopped, scanned, counts>>

\* int(arg) of -m, -P, -D or -T raises ValueError, which nothing catches
OptionsBadNumber ==
    /\ pc = "options"
    /\ Abort("bad_number", 1)
    /\ UNCHANGED <<options, policy, zap_started, stopped, scanned, counts>>

\* no -t
TargetMissing ==
    /\ pc = "options"
    /\ Abort("no_target", 3)
    /\ UNCHANGED <<options, policy, zap_started, stopped, scanned, counts>>

\* the target starts with neither http:// nor https://
TargetNotHttp ==
    /\ pc = "options"
    /\ Abort("bad_target", 3)
    /\ UNCHANGED <<options, policy, zap_started, stopped, scanned, counts>>

\* in docker, a file option is given and /zap/wrk is not mounted
WorkDirNotMounted ==
    /\ pc = "options"
    /\ in_docker' = TRUE
    /\ Abort("not_mounted", 3)
    /\ UNCHANGED <<info_unspecified, min_level, detailed_output, policy,
                   zap_started, stopped, scanned, counts>>

\* the options are accepted; -l and -s are not given here (SpecDisplay
\* draws them)
OptionsOk ==
    /\ pc = "options"
    /\ in_docker' \in BOOLEAN
    /\ info_unspecified' \in BOOLEAN
    /\ pc' = "config"
    /\ UNCHANGED <<min_level, detailed_output, policy, zap_started, stopped,
                   scanned, counts, failure, exit_code>>

\* --------------------------------------------------- lines 261-278: config
\* neither -c nor -u
ConfigNone ==
    /\ pc = "config"
    /\ pc' = "progress"
    /\ UNCHANGED <<options, policy, zap_started, stopped, scanned, counts,
                   failure, exit_code>>

\* load_config returns: the dictionaries hold the records of the config
ConfigLoaded ==
    /\ pc = "config"
    /\ config_dict' \in ConfigDicts
    /\ out_of_scope_dict' \in ScopeDicts
    /\ pc' = "progress"
    /\ UNCHANGED <<options, in_progress_issues, zap_started, stopped, scanned,
                   counts, failure, exit_code>>

ConfigFormatError_Ignored ==
    /\ pc = "config"
    /\ config_dict' \in ConfigDicts
    /\ out_of_scope_dict' \in ScopeDicts
    /\ pc' = "progress"
    /\ failure' = "config_format"
    /\ UNCHANGED <<options, in_progress_issues, zap_started, stopped, scanned,
                   counts, exit_code>>

\* load_config raises ValueError (from the file or from the url): the records
\* before the malformed one are loaded, then sys.exit(3)
ConfigFormatError ==
    /\ pc = "config"
    /\ config_dict' \in ConfigDicts
    /\ out_of_scope_dict' \in ScopeDicts
    /\ Abort("config_format", 3)
    /\ UNCHANGED <<options, in_progress_issues, zap_started, stopped, scanned, counts>>

\* -u: urlopen, read or decode raises anything else
ConfigFetchFails ==
    /\ pc = "config"
    /\ Abort("config_fetch", 3)
    /\ UNCHANGED <<options, policy, zap_started, stopped, scanned, counts>>

\* -c: open raises IOError, which nothing catches
ConfigOpenFails ==
    /\ pc = "config"
    /\ Abort("config_open", 1)
    /\ UNCHANGED <<options, policy, zap_started, stopped, scanned, counts>>

\* ------------------------------------------------- lines 280-288: progress
\* no -p
ProgressNone ==
    /\ pc = "progress"
    /\ pc' = "start_zap"
    /\ UNCHANGED <<options, policy, zap_started, stopped, scanned, counts,
                   failure, exit_code>>

\* the issues with state "inprogress" are kept
ProgressLoaded ==
    /\ pc = "progress"
    /\ in_progress_issues' \in Bounded(RuleIds, MaxProgress)
    /\ pc' = "start_zap"
    /\ UNCHANGED <<options, config_dict, out_of_scope_dict, zap_started, stopped,
                   scanned, counts, failure, exit_code>>

\* open raises IOError, json.load raises ValueError or progress["issues"]
\* raises KeyError: nothing catches any of them
ProgressMalformed ==
    /\ pc = "progress"
    /\ Abort("progress_format", 1)
    /\ UNCHANGED <<options, policy, zap_started, stopped, scanned, counts>>

\* ----------------------------------------------- lines 290-334: start ZAP
ZapStarted ==
    /\ pc = "start_zap"
    /\ zap_started' = TRUE
    /\ pc' = "scan"
    /\ UNCHANGED <<options, policy, stopped, scanned, counts, failure, exit_code>>

\* start_zap or start_docker_zap raises OSError
ZapStartFails ==
    /\ pc = "start_zap"
    /\ Abort("zap_start", 3)
    /\ UNCHANGED <<options, policy, zap_started, stopped, scanned, counts>>

\* lines 328-334, outside docker: start_docker_zap returned the container
\* id, then ipaddress_for_cid raises OSError: sys.exit(3) with the container
\* left running
ZapAddressFails ==
    /\ pc = "start_zap"
    /\ ~in_docker
    /\ zap_started' = TRUE
    /\ Abort("zap_address", 3)
    /\ UNCHANGED <<options, policy, stopped, scanned, counts>>

\* -------------------------------------------- lines 336-556: the scan phase
\* an exception before the alerts are read: the handlers print it
ScanRaises ==
    /\ pc = "scan"
    /\ pc' = "finish"
    /\ failure' = "scan_exception"
    /\ UNCHANGED <<options, policy, zap_started, stopped, scanned, counts, exit_code>>

\* num_urls == 0: a warning, nothing is classified
ScanNoUrls ==
    /\ pc = "scan"
    /\ pc' = "finish"
    /\ failure' = "no_urls"
    /\ UNCHANGED <<options, policy, zap_started, stopped, scanned, counts, exit_code>>

\* lines 469-518 on the catalog and the alerts the scanner returns
Classify(rules, fs) ==
    LET ad == GetAlerts(fs, out_of_scope_dict)
        pd == PassDict(rules, ad)
        pp == PassPhase(pd, min_level, detailed_output)
        c  == Classification(ad, config_dict, info_unspecified, in_progress_issues)
    IN  /\ all_rules' = rules
        /\ findings' = fs
        /\ classified' = TRUE
        /\ alert_dict' = ad
        /\ pass_dict' = pd
        /\ results' = c.rules
        /\ printed' = pp.lines \cup ResultLines(ad, config_dict, info_unspecified,
                                               min_level, detailed_output)
        /\ pass_count' = pp.count
        /\ ignore_count' = c.ignore[1]
        /\ info_count' = c.info[1]
        /\ warn_count' = c.warn[1]
        /\ warn_inprog_count' = c.warn[2]
        /\ fail_count' = c.fail[1]
        /\ fail_inprog_count' = c.fail[2]

\* the whole try block runs: classification, reports, summary, shutdown
ScanClassified ==
    /\ pc = "scan"
    /\ \E rules \in Catalogs, fs \in FindingSets : Classify(rules, fs)
    /\ pc' = "finish"
    /\ UNCHANGED <<options, policy, zap_started, stopped, failure, exit_code>>

\* the classification runs, then write_report or zap.core.shutdown raises
ScanClassifiedThenRaises ==
    /\ pc = "scan"
    /\ \E rules \in Catalogs, fs \in FindingSets : Classify(rules, fs)
    /\ pc' = "finish"
    /\ failure' = "late_exception"
    /\ UNCHANGED <<options, policy, zap_started, stopped, exit_code>>

\* ------------------------------------------------ lines 558-568: the end
StopDocker ==
    /\ pc = "finish"
    /\ ~in_docker
    /\ ~stopped
    /\ stopped' = TRUE
    /\ UNCHANGED <<pc, options, policy, zap_started, scanned, counts,
                   failure, exit_code>>

Exit_BeforeStop ==
    /\ pc = "finish"
    /\ exit_code' = ExitCode(fail_count, warn_count, pass_count)
    /\ pc' = "done"
    /\ UNCHANGED <<options, policy, zap_started, stopped, scanned, counts, failure>>

Exit ==
    /\ pc = "finish"
    /\ in_docker \/ stopped
    /\ exit_code' = ExitCode(fail_count, warn_count, pass_count)
    /\ pc' = "done"
    /\ UNCHANGED <<options, policy, zap_started, stopped, scanned, counts, failure>>

Next ==
    \/ OptionsInvalid \/ OptionsBadLevel \/ OptionsBadNumber
    \/ TargetMissing \/ TargetNotHttp \/ WorkDirNotMounted \/ OptionsOk
    \/ ConfigNone \/ ConfigLoaded \/ ConfigFormatError
    \/ ConfigFetchFails \/ ConfigOpenFails
    \/ ProgressNone \/ ProgressLoaded \/ ProgressMalformed
    \/ ZapStarted \/ ZapStartFails \/ ZapAddressFails
    \/ ScanRaises \/ ScanNoUrls \/ ScanClassified \/ ScanClassifiedThenRaises
    \/ StopDocker \/ Exit

Spec == Init /\ [][Next]_vars

\* ------------------------------------------- the verdict step on its own
\* main() after the try block, with every combination of the three counts
\* the exit code reads
InitVerdict ==
    /\ pc = "finish"
    /\ in_docker \in BOOLEAN
    /\ info_unspecified = FALSE
    /\ min_level = 0
    /\ detailed_output = TRUE
    /\ config_dict = EmptyDict
    /\ out_of_scope_dict = {}
    /\ in_progress_issues = {}
    /\ zap_started = TRUE
    /\ stopped = FALSE
    /\ all_rules = {}
    /\ findings = {}
    /\ classified = TRUE
    /\ alert_dict = EmptyDict
    /\ pass_dict = {}
    /\ results = NoResults
    /\ printed = {}
    /\ pass_count \in 0..MaxCount
    /\ ignore_count = 0
    /\ info_count = 0
    /\ warn_count \in 0..MaxCount
    /\ warn_inprog_count = 0
    /\ fail_count \in 0..MaxCount
    /\ fail_inprog_count = 0
    /\ failure = "none"
    /\ exit_code = -1

NextVerdict == StopDocker \/ Exit

SpecVerdict == InitVerdict /\ [][NextVerdict]_vars

\* ------------------------------------- the scan under every display option
\* main() at line 336 in the ZAP container: the options were parsed with any
\* -l level and with or without -s, the config (without OUTOFSCOPE records)
\* and the progress file were loaded and ZAP was started
InitDisplay ==
    /\ pc = "scan"
    /\ in_docker = TRUE
    /\ info_unspecified \in BOOLEAN
    /\ min_level \in MinLevels
    /\ detailed_output \in BOOLEAN
    /\ config_dict \in ConfigDicts
    /\ out_of_scope_dict = {}
    /\ in_progress_issues \in Bounded(RuleIds, MaxProgress)
    /\ zap_started = TRUE
    /\ stopped = FALSE
    /\ all_rules = {}
    /\ findings = {}
    /\ classified = FALSE
    /\ alert_dict = EmptyDict
    /\ pass_dict = {}
    /\ results = NoResults
    /\ printed = {}
    /\ pass_count = 0
    /\ ignore_count = 0
    /\ info_count = 0
    /\ warn_count = 0
    /\ warn_inprog_count = 0
    /\ fail_count = 0
    /\ fail_inprog_count = 0
    /\ failure = "none"
    /\ exit_code = -1

NextDisplay == ScanClassified \/ Exit

SpecDisplay == InitDisplay /\ [][NextDisplay]_vars

\* ================================================================ claims
\* the disposition section 4.5 step 2 resolves for a firing rule
Resolved(r) ==
    IF r \in DOMAIN config_dict THEN config_dict[r]
    ELSE IF info_unspecified THEN "INFO" ELSE "WARN"

\* the urls the scanner reported for a rule
FindingsOf(r) == {u \in Urls : <<r, u>> \in findings}

\* the buckets a rule id is reported in
BucketsOf(r) ==
    {l \in OverrideLevels : r \in results[l]}
        \cup (IF r \in pass_dict THEN {"PASS"} ELSE {})

\* C1: the exit code is 1 if fail_count > 0, otherwise 2 if warn_count > 0,
\* otherwise 0 if pass_count > 0, otherwise 3, for every combination of the
\* three counts.
C1_ExitCodePriority ==
    pc = "done" =>
        /\ fail_count > 0 => exit_code = 1
        /\ (fail_count = 0 /\ warn_count > 0) => exit_code = 2
        /\ (fail_count = 0 /\ warn_count = 0 /\ pass_count > 0) => exit_code = 0
        /\ (fail_count = 0 /\ warn_count = 0 /\ pass_count = 0) => exit_code = 3

\* a single FAIL next to as many WARN and PASS as the bound allows
C1_Witness ==
    /\ pc = "done"
    /\ fail_count = 1
    /\ warn_count = MaxCount
    /\ pass_count = MaxCount
    /\ exit_code = 1

C4_DispositionPrecedence ==
    classified =>
        \A r \in DOMAIN alert_dict :
            \A l \in OverrideLevels : (r \in results[l]) <=> (l = Resolved(r))

\* under -i, one firing rule follows its FAIL override and another, without
\* an override, is reported INFO
C4_Witness ==
    /\ classified
    /\ info_unspecified
    /\ \E r, q \in DOMAIN alert_dict :
          /\ r \in DOMAIN config_dict
          /\ config_dict[r] = "FAIL"
          /\ results["FAIL"] = {r}
          /\ q \notin DOMAIN config_dict
          /\ results["INFO"] = {q}

C6_EmptyFindingsAllPass_Claimed ==
    (classified /\ findings = {}) =>
        /\ \A r \in all_rules \ blacklist : BucketsOf(r) = {"PASS"}
        /\ pass_count = Cardinality(all_rules) - Cardinality(blacklist)

\* C6, amended: with no findings every catalog rule that is not blacklisted
\* is PASS, whatever the overrides and the progress entries, and pass_count
\* is the number of catalog rules that are not blacklisted.
C6_EmptyFindingsAllPass ==
    (classified /\ findings = {}) =>
        /\ \A r \in all_rules \ blacklist : BucketsOf(r) = {"PASS"}
        /\ \A r \in all_rules \cap blacklist : BucketsOf(r) = {}
        /\ pass_count = Cardinality(all_rules \ blacklist)

\* no findings, the full catalog, a FAIL override and an in-progress issue
C6_Witness ==
    /\ classified
    /\ findings = {}
    /\ all_rules = RuleIds \cup blacklist
    /\ \E r \in DOMAIN config_dict : config_dict[r] = "FAIL"
    /\ in_progress_issues # {}
    /\ pass_count = Cardinality(RuleIds)

\* every url the scanner reported for the rule is excluded for the rule
FullyExcluded(r) ==
    /\ FindingsOf(r) # {}
    /\ \A u \in FindingsOf(r) : <<r, u>> \in out_of_scope_dict

\* C7, as claimed: every catalog rule whose findings are all out of scope is
\* absent from the alerts and is PASS, and counted as PASS only.
C7_FullyExcludedIsPass_Claimed ==
    classified =>
        \A r \in all_rules :
            FullyExcluded(r) =>
                (r \notin DOMAIN alert_dict /\ BucketsOf(r) = {"PASS"})

\* C7, amended: every catalog rule that is not blacklisted and whose
\* findings are all out of scope is absent from the alerts and is PASS,
\* whatever override or progress entry it has; pass_count counts it.
C7_FullyExcludedIsPass ==
    classified =>
        \A r \in all_rules \ blacklist :
            FullyExcluded(r) =>
                /\ r \notin DOMAIN alert_dict
                /\ BucketsOf(r) = {"PASS"}
                /\ pass_count = Cardinality(pass_dict)

\* a rule with a FAIL override and an in-progress issue whose two findings
\* are both out of scope
C7_Witness ==
    /\ classified
    /\ \E r \in all_rules \ blacklist :
          /\ FindingsOf(r) = Urls
          /\ FullyExcluded(r)
          /\ r \in DOMAIN config_dict
          /\ config_dict[r] = "FAIL"
          /\ r \in in_progress_issues
          /\ r \in pass_dict

AllCountsZero ==
    /\ pass_count = 0
    /\ ignore_count = 0
    /\ info_count = 0
    /\ warn_count = 0
    /\ warn_inprog_count = 0
    /\ fail_count = 0
    /\ fail_inprog_count = 0

\* C8: a format error in the config ends the run with exit code 3 before
\* the scanner is started: nothing is scanned, classified or counted.
C8_ConfigFormatErrorAborts ==
    failure = "config_format" =>
        /\ pc = "done"
        /\ exit_code = 3
        /\ ~zap_started
        /\ ~classified
        /\ results = NoResults
        /\ AllCountsZero

\* the config was malformed after a first well-formed record
C8_Witness ==
    /\ failure = "config_format"
    /\ config_dict # EmptyDict
    /\ exit_code = 3

\* C9: a progress file that cannot be read or parsed, or has no "issues",
\* ends the run with exit code 3 before the scan and the classification.
C9_ProgressErrorExitsThree ==
    failure = "progress_format" =>
        /\ pc = "done"
        /\ exit_code = 3
        /\ ~zap_started
        /\ ~classified

\* the failures C10 lists
ListedFailures ==
    {"invalid_option", "bad_level", "no_target", "bad_target", "zap_start",
     "no_urls", "scan_exception", "late_exception"}

\* C10: a run that met one of the listed failures exits with code 3.
C10_FailuresExitThree ==
    (pc = "done" /\ failure \in ListedFailures) => exit_code = 3

\* the seven counts and the exit code of the run on the same catalog,
\* findings, config, progress and scope with the default display options
\* (no -l, no -s)
DefaultRun ==
    LET ad == GetAlerts(findings, out_of_scope_dict)
        pp == PassPhase(PassDict(all_rules, ad), 0, TRUE)
        c  == Classification(ad, config_dict, info_unspecified, in_progress_issues)
    IN  [counts |-> <<pp.count, c.ignore[1], c.info[1],
                      c.warn[1], c.warn[2], c.fail[1], c.fail[2]>>,
         exit   |-> ExitCode(c.fail[1], c.warn[1], pp.count)]

\* C11: whatever -l and -s are, the seven counts and the exit code are those
\* of the run on the same inputs with the default display options.
C11_DisplayOptionsKeepCounts ==
    classified =>
        /\ counts = DefaultRun.counts
        /\ pc = "done" => exit_code = DefaultRun.exit

\* under -l FAIL and -s a WARN rule and a PASS rule are counted and decide
\* the exit code, and no line is written for them
C11_Witness ==
    /\ pc = "done"
    /\ min_level = LevelIndex("FAIL")
    /\ ~detailed_output
    /\ printed = {}
    /\ warn_count = 1
    /\ pass_count = 1
    /\ exit_code = 2

\* how a run that entered the scan phase (the try block of lines 336-556)
\* left it: normally, with zero urls, or through one of the two handlers
ScanPhaseOutcomes == {"none", "no_urls", "scan_exception", "late_exception"}

\* the run started its own container and went through the scan phase
OwnContainerScanned ==
    /\ ~in_docker
    /\ zap_started
    /\ pc \in {"finish", "done"}
    /\ failure \in ScanPhaseOutcomes

====
